---- MODULE Spec2Model ----
(***************************************************************************)
(* Model of src/main.py: the "Analyze Company" run of the Streamlit script *)
(* (validation, the six-group fan-out loop, the synthesis call and the     *)
(* download), and the citation rewriting applied to every answer.          *)
(*                                                                         *)
(* A Python str is a sequence of chunks.  A chunk is either one character  *)
(* that matters to the code ("[", "]", a digit, a blank) or an opaque run  *)
(* of text that holds none of those characters.                            *)
(***************************************************************************)
EXTENDS Integers, Sequences, FiniteSets, TLC

VARIABLES
    pc,                \* position of the script run
    company_name,      \* st.text_input value (main.py:134)
    current_group,     \* main.py:147
    formatted_questions, \* main.py:157
    calls,             \* one slot per delayed(search_perplexity) task of the batch
    responses,         \* value returned by Parallel(...) (main.py:163)
    results,           \* main.py:172
    company_info_all,  \* main.py:141
    overall_results,   \* main.py:142
    combined_info,     \* main.py:198
    synth,             \* the chat.completions.create request and its outcome
    download,          \* st.download_button (main.py:255)
    ui,                \* st.error / st.success / st.info messages, in order
    cite               \* harness of the citation rewriting (main.py:174-177)

vars == <<pc, company_name, current_group, formatted_questions, calls,
          responses, results, company_info_all, overall_results,
          combined_info, synth, download, ui, cite>>

(***************************************************************************)
(* Strings                                                                 *)
(***************************************************************************)

DigitChar == <<"1", "2", "3", "4", "5", "6", "7", "8", "9">>

RECURSIVE str(_)
\* str(i) of a positive int, as f"{i}" produces it
str(i) ==
    IF i < 10
    THEN <<(IF i = 0 THEN "0" ELSE DigitChar[i])>>
    ELSE str(i \div 10) \o <<(IF i % 10 = 0 THEN "0" ELSE DigitChar[i % 10])>>

RECURSIVE replace(_, _, _)
\* s.replace(old, new): leftmost, non-overlapping occurrences, one pass
replace(s, old, new) ==
    IF Len(s) < Len(old)
    THEN s
    ELSE IF SubSeq(s, 1, Len(old)) = old
         THEN new \o replace(SubSeq(s, Len(old) + 1, Len(s)), old, new)
         ELSE <<Head(s)>> \o replace(Tail(s), old, new)

Whitespace == {" ", "\t", "\n"}

RECURSIVE lstrip(_)
lstrip(s) ==
    IF s # <<>> /\ Head(s) \in Whitespace THEN lstrip(Tail(s)) ELSE s

RECURSIVE rstrip(_)
rstrip(s) ==
    IF s # <<>> /\ s[Len(s)] \in Whitespace
    THEN rstrip(SubSeq(s, 1, Len(s) - 1))
    ELSE s

stripNothing(s) == s

\* s.strip()
strip(s) == rstrip(lstrip(s))

RECURSIVE joinNoSeparator(_, _)
joinNoSeparator(sep, parts) ==
    IF parts = <<>> THEN <<>> ELSE Head(parts) \o joinNoSeparator(sep, Tail(parts))

RECURSIVE join(_, _)
\* sep.join(parts)
join(sep, parts) ==
    IF parts = <<>>
    THEN <<>>
    ELSE IF Len(parts) = 1
         THEN Head(parts)
         ELSE Head(parts) \o sep \o join(sep, Tail(parts))

(***************************************************************************)
(* Citation rewriting                                                      *)
(***************************************************************************)

MarkerOffByOne(i) == <<"[">> \o str(i + 1) \o <<"]">>

\* f"[{i}]"
Marker(i) == <<"[">> \o str(i) \o <<"]">>

\* f"({i}][{citation})"
Replacement(i, citation) == <<"(">> \o str(i) \o <<"]", "[">> \o citation \o <<")">>

RECURSIVE CitationLoop(_, _, _)
\* the enumerate(resp.citations, start=1) loop from its i-th iteration on
CitationLoop(content, citations, i) ==
    IF i > Len(citations)
    THEN content
    ELSE CitationLoop(replace(content, Marker(i), Replacement(i, citations[i])),
                      citations, i + 1)

RenderCitations(content, citations) == CitationLoop(content, citations, 1)

(***************************************************************************)
(* The question catalog (main.py:81-126)                                   *)
(***************************************************************************)

\* the {company_name} replacement field of a template
CN == "{company_name}"

questions1 ==
    <<
        <<"What are ", CN, " core projects and recent developments?">>,
        <<"What are the main products or services that ", CN, " offers?">>,
        <<"What recent projects or initiatives have ", CN, " launched?">>,
        <<"Have ", CN, " pivoted or expanded into new areas recently?">>,
        <<"What technologies or methodologies are ", CN, " investing in?">>
    >>

questions2 ==
    <<
        <<"How are ", CN, " communicating their vision and direction?">>,
        <<"What kind of public speeches, interviews, or conference presentations have ", CN, " leaders given?">>,
        <<"Have ", CN, " published any white papers, research articles, or thought leadership pieces recently?">>,
        <<"How does ", CN, " position themselves in industry discussions (e.g., sustainability, innovation, longevity)?">>
    >>

questions3 ==
    <<
        <<"What funding rounds have ", CN, " completed, and how much capital have they raised?">>,
        <<"Who are ", CN, " investors, and what is the scale of their financial backing?">>,
        <<"Are there any publicly available financial reports or statements of ", CN, "?">>
    >>

questions4 ==
    <<
        <<"How reputable and influential is ", CN, " in their industry?">>,
        <<"What awards, recognitions, or certifications has ", CN, " received?">>,
        <<"How is ", CN, " perceived by industry experts and analysts?">>,
        <<"What partnerships or collaborations do ", CN, " have with other well-known organizations?">>,
        <<"Are there any customer testimonials, case studies, or independent reviews of ", CN, "?">>
    >>

questions5 ==
    <<
        <<"What are potential concerns or ethical considerations of ", CN, "?">>,
        <<"Are there any controversies or ethical debates surrounding ", CN, " products or services?">>,
        <<"What is the feedback from ", CN, " customers and the broader public?">>,
        <<"Do ", CN, " have clear policies regarding sustainability, ethical practices, or data privacy?">>
    >>

questions6 ==
    <<
        <<"What is the ", CN, " long-term vision and roadmap?">>,
        <<"How do ", CN, " differentiate themselves from competitors?">>,
        <<"What are the key challenges ", CN, " currently face?">>,
        <<"How do ", CN, " handle innovation, and what is their approach to research and development?">>
    >>

\* a dict in insertion order, as .items() iterates it
group_questions ==
    <<
        [title |-> "What are their core projects and recent developments?",
         questions |-> questions1],
        [title |-> "How are they communicating their vision and direction?",
         questions |-> questions2],
        [title |-> "What is their financial health and funding status?",
         questions |-> questions3],
        [title |-> "How reputable and influential are they in their industry?",
         questions |-> questions4],
        [title |-> "What are potential concerns or ethical considerations?",
         questions |-> questions5],
        [title |-> "What additional aspects should I consider?",
         questions |-> questions6]
    >>

total_groups == Len(group_questions)

RECURSIVE format(_, _)
\* q.format(company_name=name): every replacement field becomes the name
format(q, name) ==
    IF q = <<>>
    THEN <<>>
    ELSE (IF Head(q) = CN THEN name ELSE <<Head(q)>>) \o format(Tail(q), name)

FormatAll(questions, name) ==
    [i \in 1..Len(questions) |-> format(questions[i], name)]

(***************************************************************************)
(* Python dict (insertion ordered) and json.dumps(..., indent=4)           *)
(***************************************************************************)

HasKey(d, k) == \E j \in 1..Len(d) : d[j].key = k

\* d[k] = v
dictSet(d, k, v) ==
    IF HasKey(d, k)
    THEN [j \in 1..Len(d) |-> IF d[j].key = k THEN [key |-> k, value |-> v] ELSE d[j]]
    ELSE Append(d, [key |-> k, value |-> v])

RECURSIVE dumpsEntries(_)
dumpsEntries(d) ==
    IF d = <<>>
    THEN <<>>
    ELSE <<"\n    \"">> \o Head(d).key \o <<"\": \"">> \o Head(d).value \o <<"\"">>
         \o (IF Len(d) > 1 THEN <<",">> ELSE <<>>) \o dumpsEntries(Tail(d))

\* json.dumps(d, indent=4) of a dict of str to str (escaping left inside the chunks)
dumps(d) ==
    IF d = <<>> THEN <<"{}">> ELSE <<"{">> \o dumpsEntries(d) \o <<"\n}">>

(***************************************************************************)
(* The search endpoint and search_perplexity (main.py:48-74)               *)
(***************************************************************************)

NoBody == [valid |-> FALSE, citations |-> <<>>, choices |-> <<>>]
NoHttp == [transport |-> "none", status |-> 0, body |-> NoBody]

\* What the endpoint answers to a prompt: the answer names its own prompt and
\* carries one citation marker, so that a result can be told from another's.
AnswerTo(prompt) == <<"Re: ">> \o prompt \o <<" ", "[", "1", "]">>
CitationsTo(prompt) == << <<"https://source.example/report">> >>

\* response.text: a body the schema rejects, one it accepts with an empty choice
\* list, one it accepts with the answer as first choice
Bodies(prompt) ==
    { NoBody,
      [valid |-> TRUE, citations |-> CitationsTo(prompt), choices |-> <<>>],
      [valid |-> TRUE, citations |-> CitationsTo(prompt),
       choices |-> << [message |-> [content |-> AnswerTo(prompt)]] >>] }

\* every way requests.post can end: a transport error, or a response with a 2xx
\* or a non-2xx status and any body
HttpResults(prompt) ==
    { [transport |-> "error", status |-> 0, body |-> NoBody] }
    \cup { [transport |-> "ok", status |-> st, body |-> b] :
               st \in {200, 500}, b \in Bodies(prompt) }

\* search_perplexity from the moment requests.post ends: a transport error
\* propagates; otherwise model_validate_json(response.text) raises on a body that
\* does not match PerplexityResponse and returns the parsed response if it does.
\* response.status_code is never read.
search_perplexity(http) ==
    IF http.transport = "error"
    THEN [raised |-> TRUE, exc |-> "RequestException"]
    ELSE IF ~http.body.valid
         THEN [raised |-> TRUE, exc |-> "ValidationError"]
         ELSE [raised |-> FALSE, exc |-> "none"]

\* the PerplexityResponse a returned call carries
PerplexityResponse(http) ==
    [citations |-> http.body.citations, choices |-> http.body.choices]

(***************************************************************************)
(* Parallel(n_jobs=-1)(delayed(search_perplexity)(q) for q in ...)         *)
(***************************************************************************)

\* A task of the batch: its state, the number of requests it has posted and how
\* its request ended
Slot(st, posts, http) == [st |-> st, posts |-> posts, http |-> http]

AllPending(n) == [i \in 1..n |-> Slot("pending", 0, NoHttp)]

LeaveRunning(slots, i, http) ==
    [j \in 1..Len(slots) |->
        IF j = i THEN Slot("raised", slots[j].posts, http)
        ELSE IF slots[j].st = "inflight" THEN slots[j]
        ELSE Slot("discarded", 0, NoHttp)]

\* Task i raised: Parallel stops dispatching and aborts the backend before it
\* re-raises to the caller.  Tasks not yet started never run, the workers of
\* running tasks are terminated, values already returned are dropped.
AbortEverything(slots, i, http) ==
    [j \in 1..Len(slots) |->
        IF j = i THEN Slot("raised", slots[j].posts, http)
        ELSE Slot("discarded", 0, NoHttp)]

GatherReversed(slots) ==
    [i \in 1..Len(slots) |-> PerplexityResponse(slots[Len(slots) + 1 - i].http)]

\* The list Parallel returns: the i-th element is the value of the i-th task
Gather(slots) ==
    [i \in 1..Len(slots) |-> PerplexityResponse(slots[i].http)]

(***************************************************************************)
(* The body of the group loop after the dispatch (main.py:171-185)         *)
(***************************************************************************)

Min(a, b) == IF a < b THEN a ELSE b

RECURSIVE BuildLoop(_, _, _, _)
\* for resp, original_question in zip(responses, questions, strict=False), from
\* the k-th pair on.  resp.choices[0] raises IndexError on an empty choice list.
BuildLoop(resps, questions, k, acc) ==
    IF k > Min(Len(resps), Len(questions))
    THEN [crashed |-> FALSE, results |-> acc]
    ELSE IF resps[k].choices = <<>>
         THEN [crashed |-> TRUE, results |-> acc]
         ELSE BuildLoop(resps, questions, k + 1,
                        dictSet(acc, questions[k],
                                RenderCitations(resps[k].choices[1].message.content,
                                                resps[k].citations)))

BuildResults(resps, questions) == BuildLoop(resps, questions, 1, <<>>)

(***************************************************************************)
(* Messages, synthesis request, download                                   *)
(***************************************************************************)

Msg(kind, text) == [kind |-> kind, text |-> text]

\* The chunk "{e}" stands for str(e), the text of the exception; which
\* exception it was does not change what the script does next.
GroupError(group_title) ==
    Msg("error", <<"Error retrieving data for group '", group_title, "': ", "{e}">>)

SEP == <<"\n--------------\n">>

\* the f-string sent as the user message, {combined_info} interpolated
SynthPrompt(info) ==
    <<"\nI am a business development professional ... Here is the searched information about the company: ">>
    \o info
    \o <<"\n\n*Please format your response using Markdown for clarity and ease of reading.*\n">>

\* response.choices[0].message.content of a successful synthesis call
GuideText == <<"## 1. Company Summary ...">>

FileContentNoSeparator(info, topics) == info \o topics

\* f"{combined_info}\n--------------\n{conversation_topics}"
FileContent(info, topics) == info \o SEP \o topics

NoSynth == [st |-> "none", request |-> <<>>, topics |-> <<>>]
NoDownload == [offered |-> FALSE, data |-> <<>>, file_name |-> <<>>]
NoCite == [pc |-> "off", answer |-> <<>>, citations |-> <<>>, content |-> <<>>]

(***************************************************************************)
(* The run of the script after "Analyze Company" is pressed                *)
(***************************************************************************)

\* what the user may have typed: nothing, blanks only, a name
CompanyNames == { <<>>, <<" ">>, <<"\t", " ">>, <<"Acme">> }

\* The script has passed its start-up check of PERPLEXITY_API (main.py:41-44);
\* the text input holds a name and the button has not been pressed yet.
Init ==
    /\ pc = "idle"
    /\ company_name \in CompanyNames
    /\ current_group = 0
    /\ formatted_questions = <<>>
    /\ calls = <<>>
    /\ responses = <<>>
    /\ results = <<>>
    /\ company_info_all = <<>>
    /\ overall_results = <<>>
    /\ combined_info = <<>>
    /\ synth = NoSynth
    /\ download = NoDownload
    /\ ui = <<>>
    /\ cite = NoCite

\* main.py:136-147
Analyze ==
    /\ pc = "idle"
    /\ IF strip(company_name) = <<>>
       THEN /\ ui' = Append(ui, Msg("error", <<"Please enter a valid company name.">>))
            /\ pc' = "done"
       ELSE /\ ui' = Append(ui, Msg("info", <<"Analyzing company: **">> \o company_name \o <<"**">>))
            /\ pc' = "loop"
    /\ company_info_all' = <<>>
    /\ overall_results' = <<>>
    /\ current_group' = 0
    /\ UNCHANGED <<company_name, formatted_questions, calls, responses,
                   results, combined_info, synth, download, cite>>

\* main.py:150-163: the next group of the catalog, its questions formatted and
\* handed to Parallel
StartGroup ==
    /\ pc = "loop"
    /\ current_group < total_groups
    /\ current_group' = current_group + 1
    /\ formatted_questions' =
           FormatAll(group_questions[current_group + 1].questions, company_name)
    /\ calls' = AllPending(Len(group_questions[current_group + 1].questions))
    /\ pc' = "dispatch"
    /\ UNCHANGED <<company_name, responses, results, company_info_all,
                   overall_results, combined_info, synth, download, ui, cite>>

\* main.py:71: a worker starts task i and posts its request
IssueCall(i) ==
    /\ pc = "dispatch"
    /\ calls[i].st = "pending"
    /\ calls' = [calls EXCEPT ![i] = Slot("inflight", @.posts + 1, NoHttp)]
    /\ UNCHANGED <<pc, company_name, current_group, formatted_questions, responses,
                   results, company_info_all, overall_results, combined_info,
                   synth, download, ui, cite>>

\* main.py:71-74 and 167-169: the request of task i ends.  If search_perplexity
\* returns, the value waits in its slot; if it raises, Parallel aborts the batch
\* and re-raises, the except clause reports the group and continues the loop.
CompleteCall(i, http) ==
    /\ pc = "dispatch"
    /\ calls[i].st = "inflight"
    /\ IF search_perplexity(http).raised
       THEN /\ calls' = AbortEverything(calls, i, http)
            /\ ui' = Append(ui, GroupError(group_questions[current_group].title))
            /\ pc' = "loop"
       ELSE /\ calls' = [calls EXCEPT ![i] = Slot("returned", @.posts, http)]
            /\ UNCHANGED <<ui, pc>>
    /\ UNCHANGED <<company_name, current_group, formatted_questions, responses,
                   results, company_info_all, overall_results, combined_info,
                   synth, download, cite>>

\* main.py:163-187: every task has returned; Parallel returns the list and the
\* rest of the loop body runs.  An IndexError of resp.choices[0] is raised
\* outside the try block and ends the script run.
FinishGroup ==
    /\ pc = "dispatch"
    /\ \A i \in 1..Len(calls) : calls[i].st = "returned"
    /\ responses' = Gather(calls)
    /\ LET built == BuildResults(responses', group_questions[current_group].questions)
       IN /\ results' = built.results
          /\ IF built.crashed
             THEN /\ pc' = "crashed"
                  /\ UNCHANGED <<company_info_all, overall_results>>
             ELSE /\ pc' = "loop"
                  /\ company_info_all' =
                         dictSet(company_info_all,
                                 <<group_questions[current_group].title>>, results')
                  /\ overall_results' = Append(overall_results, dumps(results'))
    /\ UNCHANGED <<company_name, current_group, formatted_questions, calls,
                   combined_info, synth, download, ui, cite>>

\* main.py:189-245: the loop is over; the transcript is joined, the key is read
\* from the environment and, if present, the synthesis request is sent
StartSynthesis(openai_api_key) ==
    /\ pc = "loop"
    /\ current_group = total_groups
    /\ combined_info' = join(SEP, overall_results)
    /\ LET shown == ui \o << Msg("success", <<"Company data retrieval complete!">>),
                            Msg("info", <<"Generating conversation topics for discussion...">>) >>
       IN IF ~openai_api_key
          THEN /\ ui' = Append(shown, Msg("error", <<"Missing OPENAI_API_KEY environment variable.">>))
               /\ pc' = "done"
               /\ UNCHANGED synth
          ELSE /\ ui' = shown
               /\ synth' = [st |-> "inflight", request |-> SynthPrompt(combined_info'),
                            topics |-> <<>>]
               /\ pc' = "synth"
    /\ UNCHANGED <<company_name, current_group, formatted_questions, calls,
                   responses, results, company_info_all, overall_results,
                   download, cite>>

\* how client.chat.completions.create can end: a completion with a first choice,
\* an exception, a completion with no choice (IndexError at main.py:246)
SynthOutcomes == {"ok", "error", "no_choice"}

\* main.py:246-263
FinishSynthesis(outcome) ==
    /\ pc = "synth"
    /\ synth.st = "inflight"
    /\ IF outcome = "ok"
       THEN /\ synth' = [synth EXCEPT !.st = "ok", !.topics = GuideText]
            /\ download' = [offered |-> TRUE,
                            data |-> FileContent(combined_info, GuideText),
                            file_name |-> company_name \o <<"_questions_topics.txt">>]
            /\ ui' = ui \o << Msg("markdown", <<"## Conversation Starters and Topics">>),
                              Msg("markdown", GuideText),
                              Msg("success", <<"Click the button above to download the conversation topics">>) >>
       ELSE /\ synth' = [synth EXCEPT !.st = "failed"]
            /\ ui' = Append(ui, Msg("error", <<"Error generating conversation topics: ", "{e}">>))
            /\ UNCHANGED download
    /\ pc' = "done"
    /\ UNCHANGED <<company_name, current_group, formatted_questions, calls,
                   responses, results, company_info_all, overall_results,
                   combined_info, cite>>

Next ==
    \/ Analyze
    \/ StartGroup
    \/ \E i \in 1..Len(calls) : IssueCall(i)
    \/ \E i \in 1..Len(calls) :
           \E http \in HttpResults(formatted_questions[i]) : CompleteCall(i, http)
    \/ FinishGroup
    \/ \E openai_api_key \in BOOLEAN : StartSynthesis(openai_api_key)
    \/ \E outcome \in SynthOutcomes : FinishSynthesis(outcome)

Spec == Init /\ [][Next]_vars

(***************************************************************************)
(* The citation rewriting on its own: every answer and citation list of    *)
(* the bounded input sets, rewritten as main.py:174-177 rewrites them      *)
(***************************************************************************)

MaxParts == 3
MaxCitations == 2

\* an answer is built from markers and from the characters markers are made of
Pieces ==
    { <<"[", "1", "]">>, <<"[", "2", "]">>, <<"[", "3", "]">>,
      <<"x">>, <<"[">>, <<"]">>, <<"1">> }

RECURSIVE Texts(_)
Texts(n) ==
    IF n = 0
    THEN { <<>> }
    ELSE Texts(n - 1) \cup { p \o t : p \in Pieces, t \in Texts(n - 1) }

\* citation values: a plain one, one that holds a bracketed number, one that
\* starts with a number and a bracket
CitationValues == { <<"u">>, <<"w", "[", "2", "]">>, <<"2", "]", "z">> }

RECURSIVE CitationLists(_)
CitationLists(n) ==
    IF n = 0
    THEN { <<>> }
    ELSE CitationLists(n - 1)
         \cup { Append(l, c) : l \in CitationLists(n - 1), c \in CitationValues }

CiteInit ==
    /\ pc = "idle"
    /\ company_name = <<>>
    /\ current_group = 0
    /\ formatted_questions = <<>>
    /\ calls = <<>>
    /\ responses = <<>>
    /\ results = <<>>
    /\ company_info_all = <<>>
    /\ overall_results = <<>>
    /\ combined_info = <<>>
    /\ synth = NoSynth
    /\ download = NoDownload
    /\ ui = <<>>
    /\ \E answer \in Texts(MaxParts) : \E citations \in CitationLists(MaxCitations) :
           cite = [pc |-> "start", answer |-> answer, citations |-> citations,
                   content |-> answer]

\* main.py:174-177 on one response
CiteRender ==
    /\ cite.pc = "start"
    /\ cite' = [cite EXCEPT !.pc = "done",
                            !.content = RenderCitations(cite.answer, cite.citations)]
    /\ UNCHANGED <<pc, company_name, current_group, formatted_questions, calls,
                   responses, results, company_info_all, overall_results,
                   combined_info, synth, download, ui>>

CiteNext == CiteRender

CiteSpec == CiteInit /\ [][CiteNext]_vars

(***************************************************************************)
(* Vocabulary of the properties                                            *)
(***************************************************************************)

\* d[k] of a dict that holds k
DictGet(d, k) == d[CHOOSE j \in 1..Len(d) : d[j].key = k].value

\* the name is empty or holds blanks only
Blank(name) == \A j \in 1..Len(name) : name[j] \in Whitespace

GroupTitle(g) == group_questions[g].title
GroupQuestions(g) == group_questions[g].questions

\* st.error has reported group g
Reported(g) == \E j \in 1..Len(ui) : ui[j] = GroupError(GroupTitle(g))

\* the iteration of group current_group has ended
GroupEnded == pc \in {"loop", "crashed"} /\ current_group >= 1

\* every search_perplexity call of the ended batch returned a response
AllCallsReturned == \A i \in 1..Len(calls) : calls[i].st = "returned"

\* the current group's mapping is stored and its serialization is the last
\* element of overall_results
Contributed ==
    /\ HasKey(company_info_all, <<GroupTitle(current_group)>>)
    /\ overall_results # <<>>
    /\ overall_results[Len(overall_results)] =
           dumps(DictGet(company_info_all, <<GroupTitle(current_group)>>))

\* the run got past the group loop
PastLoop == pc \in {"synth", "done"} /\ ~Blank(company_name)

\* the text "[k]" for a one-digit k
MarkerText(k) == <<"[", DigitChar[k], "]">>

OneDigit == 1..Len(DigitChar)

\* "[k]" occurs in s at position p
MarkerAt(s, p, k) == p + 2 <= Len(s) /\ SubSeq(s, p, p + 2) = MarkerText(k)

\* the transcript the error messages and the stored mappings call for: the
\* mappings of the groups not reported, from group g on, a separator line
\* before each but the first
RECURSIVE TranscriptFrom(_, _)
TranscriptFrom(g, first) ==
    IF g > total_groups
    THEN <<>>
    ELSE IF Reported(g)
         THEN TranscriptFrom(g + 1, first)
         ELSE (IF first THEN <<>> ELSE <<"\n--------------\n">>)
              \o dumps(DictGet(company_info_all, <<GroupTitle(g)>>))
              \o TranscriptFrom(g + 1, FALSE)

\* the rendered answer of the endpoint to question i of group g
OwnAnswer(g, i) ==
    RenderCitations(AnswerTo(format(GroupQuestions(g)[i], company_name)),
                    CitationsTo(format(GroupQuestions(g)[i], company_name)))

\* the answer with its own markers rewritten, in one pass
RECURSIVE RewriteMarkers(_, _)
\* one pass over the answer: a marker in range becomes its replacement, any
\* other character is copied
RewriteMarkers(s, citations) ==
    IF s = <<>>
    THEN <<>>
    ELSE IF \E i \in 1..Len(citations) : i \in OneDigit /\ MarkerAt(s, 1, i)
         THEN LET i == CHOOSE k \in 1..Len(citations) : k \in OneDigit /\ MarkerAt(s, 1, k)
              IN <<"(", DigitChar[i], "]", "[">> \o citations[i] \o <<")">>
                 \o RewriteMarkers(SubSeq(s, 4, Len(s)), citations)
         ELSE <<Head(s)>> \o RewriteMarkers(Tail(s), citations)

(***************************************************************************)
(* C1 -- a group contributes its serialized mapping if and only if every   *)
(* one of its search calls succeeded; otherwise it is skipped with nothing *)
(* stored and an error naming the group is reported.                       *)
(***************************************************************************)
C1_GroupAllOrNothing ==
    GroupEnded =>
        /\ Contributed <=> AllCallsReturned
        /\ ~AllCallsReturned =>
               /\ ~HasKey(company_info_all, <<GroupTitle(current_group)>>)
               /\ ui[Len(ui)] = GroupError(GroupTitle(current_group))

(***************************************************************************)
(* C2 -- with a non-blank name the run is never aborted by a failure in a  *)
(* group: whatever the calls return, it gets past the loop, and only after *)
(* all six groups were attempted.                                          *)
(***************************************************************************)
C2_RunAlwaysReachesSynthesis ==
    ~Blank(company_name) =>
        /\ pc # "crashed"
        /\ pc \in {"synth", "done"} => current_group = total_groups

(***************************************************************************)
(* C3 -- combined_info is the serialized mappings of exactly the groups    *)
(* whose dispatch succeeded, in catalog order, with the separator line     *)
(* between two neighbours; in a run without a failed group these are six   *)
(* mappings of 5, 4, 3, 5, 4 and 4 entries.                                *)
(***************************************************************************)
C3_TranscriptIsSucceededGroupsInOrder ==
    PastLoop =>
        /\ \A g \in 1..total_groups :
               Reported(g) <=> ~HasKey(company_info_all, <<GroupTitle(g)>>)
        /\ combined_info = TranscriptFrom(1, TRUE)
        /\ (\A g \in 1..total_groups : ~Reported(g)) =>
               /\ Len(overall_results) = 6
               /\ [g \in 1..6 |-> Len(DictGet(company_info_all, <<GroupTitle(g)>>))]
                      = <<5, 4, 3, 5, 4, 4>>

C3_Witness ==
    /\ PastLoop
    /\ Reported(2)
    /\ Reported(5)
    /\ Len(overall_results) = 4

(***************************************************************************)
(* C4 -- after a batch in which every call returned, the i-th response is  *)
(* the response to the i-th formatted question and every template stored   *)
(* in results maps to the rendered answer of its own question, whatever    *)
(* the order in which the calls completed.                                 *)
(***************************************************************************)
C4_ResultsAlignedByIndex ==
    (GroupEnded /\ AllCallsReturned) =>
        /\ Len(responses) = Len(GroupQuestions(current_group))
        /\ \A i \in 1..Len(responses) :
               responses[i].choices # <<>> =>
                   responses[i].choices[1].message.content
                       = AnswerTo(formatted_questions[i])
        /\ \A i \in 1..Len(GroupQuestions(current_group)) :
               HasKey(results, GroupQuestions(current_group)[i]) =>
                   DictGet(results, GroupQuestions(current_group)[i])
                       = OwnAnswer(current_group, i)
        /\ pc = "loop" => Len(results) = Len(GroupQuestions(current_group))

C4_Witness ==
    /\ pc = "loop"
    /\ current_group = 4
    /\ AllCallsReturned
    /\ Len(results) = 5

(***************************************************************************)
(* C5 -- groups never overlap: a search call is in flight only inside the  *)
(* dispatch of the current group, so none is left when the next group      *)
(* starts, and the synthesis request exists only after the last group's    *)
(* batch has returned or failed.                                           *)
(***************************************************************************)
C5_GroupsNeverOverlap ==
    /\ \A i \in 1..Len(calls) : calls[i].st = "inflight" => pc = "dispatch"
    /\ pc = "dispatch" => synth = NoSynth
    /\ synth # NoSynth =>
           /\ current_group = total_groups
           /\ pc \in {"synth", "done"}

C5_Witness ==
    /\ pc = "dispatch"
    /\ current_group = 2
    /\ Reported(1)
    /\ \E i \in 1..Len(calls) : calls[i].st = "inflight"

(***************************************************************************)
(* C6 -- a run with an empty or all-blank company name sends no search     *)
(* request and no synthesis request and shows the validation error as its  *)
(* only message.                                                           *)
(***************************************************************************)
C6_BlankNameMakesNoRequest ==
    Blank(company_name) =>
        /\ calls = <<>>
        /\ synth = NoSynth
        /\ pc \in {"idle", "done"}
        /\ pc = "done" =>
               ui = << Msg("error", <<"Please enter a valid company name.">>) >>

C6_Witness ==
    /\ pc = "done"
    /\ company_name = <<"\t", " ">>
    /\ Len(ui) = 1

(***************************************************************************)
(* C7 -- the rendered text is the answer with every occurrence of a marker *)
(* "[i]", 1 <= i <= number of citations, replaced by "(i][c_i)" and        *)
(* nothing else changed, for every answer and every citation list.         *)
(***************************************************************************)
C7_EveryMarkerRewrittenOnce ==
    cite.pc = "done" => cite.content = RewriteMarkers(cite.answer, cite.citations)

(***************************************************************************)
(* C8 -- a marker whose index exceeds the number of citations stays where  *)
(* it is as the same text (the text before it and the text after it are    *)
(* rendered around it), and an answer with no marker in range is returned  *)
(* unchanged, for every citation list.                                     *)
(***************************************************************************)
C8_UncitedTextUntouched ==
    cite.pc = "done" =>
        /\ \A p \in 1..Len(cite.answer) : \A k \in OneDigit :
               (k > Len(cite.citations) /\ MarkerAt(cite.answer, p, k)) =>
                   cite.content =
                       RenderCitations(SubSeq(cite.answer, 1, p - 1), cite.citations)
                       \o MarkerText(k)
                       \o RenderCitations(SubSeq(cite.answer, p + 3, Len(cite.answer)),
                                          cite.citations)
        /\ (\A p \in 1..Len(cite.answer) : \A k \in 1..Len(cite.citations) :
                ~MarkerAt(cite.answer, p, k)) =>
               cite.content = cite.answer

C8_Witness ==
    /\ cite.pc = "done"
    /\ Len(cite.citations) = 2
    /\ \E p \in 1..Len(cite.answer) : MarkerAt(cite.answer, p, 3)
    /\ \E p \in 1..Len(cite.answer) : MarkerAt(cite.answer, p, 1)
    /\ cite.content # cite.answer

(***************************************************************************)
(* C9 -- a question gets exactly one request, never a second one, and the  *)
(* call returns a result only if that request ended without a transport    *)
(* error, with a 2xx status and with a body that matches the schema.       *)
(***************************************************************************)
C9_OneRequestFailsOnBadOutcome ==
    \A i \in 1..Len(calls) :
        /\ calls[i].st \in {"inflight", "returned", "raised"} => calls[i].posts = 1
        /\ calls[i].st = "pending" => calls[i].posts = 0
        /\ calls[i].st = "returned" =>
               /\ calls[i].http.transport = "ok"
               /\ calls[i].http.status \in 200..299
               /\ calls[i].http.body.valid

(***************************************************************************)
(* C10 -- the download is offered exactly when the synthesis call yielded  *)
(* a guide; its content is then the transcript that was sent in the        *)
(* request, the separator line and the guide; without the credential no    *)
(* request is sent, and without credential or guide the step ends with an  *)
(* error message and no download.                                          *)
(***************************************************************************)
C10_DownloadOnlyAfterSynthesis ==
    /\ download.offered <=> synth.st = "ok"
    /\ download.offered =>
           /\ download.data = combined_info \o <<"\n--------------\n">> \o synth.topics
           /\ synth.request = SynthPrompt(combined_info)
           /\ synth.topics = GuideText
    /\ (\E j \in 1..Len(ui) :
            ui[j] = Msg("error", <<"Missing OPENAI_API_KEY environment variable.">>))
           => synth = NoSynth
    /\ (pc = "done" /\ ~Blank(company_name) /\ synth.st # "ok") =>
           /\ ui[Len(ui)].kind = "error"
           /\ download = NoDownload
           /\ synth.st = "none" =>
                  ui[Len(ui)] = Msg("error", <<"Missing OPENAI_API_KEY environment variable.">>)

C10_Witness ==
    /\ download.offered
    /\ Reported(3)
    /\ Len(overall_results) = 5

====
